---- MODULE Spec2Model ----
(***************************************************************************)
(* Quantum circuit designer (src/app.py): the diagram editor, the          *)
(* diagram-to-circuit compiler of simulate_circuit, the wire connectivity  *)
(* resolver and the aggregation of measurement counts.                     *)
(*                                                                         *)
(* Points are pairs <<x, y>> of pixel coordinates.  Wire indices and qubit *)
(* indices are 0-based as in the source; wire k is wires[k + 1].           *)
(* Floating-point values are kept exact: a distance is the exact fraction  *)
(* of its square, a probability is the fraction count / total_shots, and a *)
(* length (math.sqrt) is a fixed-point number in 1/100 of a pixel.         *)
(***************************************************************************)
EXTENDS Integers, Sequences, FiniteSets, TLC

VARIABLES
    wires,                 \* self.wires: list of Wire
    gates,                 \* self.gates: list of Gate
    sensors,               \* self.sensors: list of positions
    circuit,               \* self.circuit: None or the QuantumCircuit
    drawing_wire,          \* self.drawing_wire
    current_wire_points,   \* self.current_wire_points
    selected_tool,         \* self.selected_tool
    sensor_data,           \* self.sensor_data
    circuit_info,          \* what the "Circuit Info" widget shows
    sensor_text,           \* what the "Sensor Data" widget shows
    wire_connections,      \* the resolver's result, when it is applied on its own
    counts                 \* the counts given to the aggregator on its own

vars ==
    <<wires, gates, sensors, circuit, drawing_wire, current_wire_points,
      selected_tool, sensor_data, circuit_info, sensor_text,
      wire_connections, counts>>

----------------------------------------------------------------------------
(* Bounds of the model *)

\* editor: the handlers stop adding wires / gates / wire points at these sizes
MaxWires == 2
MaxGates == 1
MaxPoints == 2
\* diagrams handed to simulate_circuit directly
InitWires == 2
InitGates == 2
InitSensors == 1
InitPoints == 3
InitItems == 3
\* wire collections handed to the connectivity resolver
ConnWires == 3
\* measurement counts handed to the aggregator: clbits, distinct keys, count
MaxBits == 2
MaxKeys == 2
MaxCount == 2

(* Program constants *)

grid_size == 20
SHOTS == 1000
ENDPOINT_THRESHOLD == 10
DEFAULT_THRESHOLD == 20

\* self.selected_tool = None
None == "None"

\* self.circuit = None: a QuantumCircuit has at least one qubit
NoCircuit == [num_qubits |-> 0, num_clbits |-> 0, data |-> <<>>]

\* keys of self.GATE_COLORS
GATE_COLORS == {"H", "X", "Y", "Z", "CNOT", "SENSOR"}

\* the values of select_tool's argument that handle_mouse_down tells apart;
\* the side panel builds a button for each of them but "SENSOR"
Tools == GATE_COLORS \cup {"WIRE", "DELETE"}

\* mouse positions (pixels) delivered by the event loop to the editor
MousePositions == {<<10, 10>>, <<30, -3>>, <<47, 9>>}

\* grid positions of the diagrams handed to simulate_circuit
GridPoints == {<<0, 0>>, <<20, 0>>, <<20, 20>>}

----------------------------------------------------------------------------
(* Helpers on sequences and sets *)

Last(s) == s[Len(s)]

Max(a, b) == IF a >= b THEN a ELSE b

Min(a, b) == IF a <= b THEN a ELSE b

\* iteration order of a Python set of small non-negative ints: each int hashes
\* to itself and sits in its own slot of the table, so the order is ascending
RECURSIVE IterationOrder(_)
IterationOrder(S) ==
    IF S = {} THEN <<>>
    ELSE LET m == CHOOSE x \in S : \A y \in S : x <= y
         IN  <<m>> \o IterationOrder(S \ {m})

\* sequences over S of length lo..hi
RECURSIVE SeqsUpTo(_, _, _)
SeqsUpTo(S, lo, hi) ==
    IF hi < lo THEN {}
    ELSE IF hi = 0 THEN {<<>>}
    ELSE LET shorter == SeqsUpTo(S, Max(lo - 1, 0), hi - 1)
         IN  {s \in shorter : Len(s) >= lo}
             \cup {Append(s, x) : s \in {t \in shorter : Len(t) = hi - 1}, x \in S}

----------------------------------------------------------------------------
(* Geometry *)

\* Python's round(n / d) for d > 0: round half to even
Round(n, d) ==
    LET q == n \div d
        r == n % d
    IN  IF 2 * r < d THEN q
        ELSE IF 2 * r > d THEN q + 1
        ELSE IF q % 2 = 0 THEN q ELSE q + 1

snap_to_grid(pos) ==
    <<Round(pos[1], grid_size) * grid_size, Round(pos[2], grid_size) * grid_size>>

point_near_pos(pos1, pos2, threshold) ==
    LET dx == pos1[1] - pos2[1]
        dy == pos1[2] - pos2[2]
    IN  dx * dx + dy * dy <= threshold * threshold

DistSq(p, q) == (p[1] - q[1]) * (p[1] - q[1]) + (p[2] - q[2]) * (p[2] - q[2])

\* the square of the returned distance, as the exact fraction num / den.
\* With t = numerator / |b - a|^2 clamped to [0, 1] the projection is a (t = 0),
\* b (t = 1) or the foot of the perpendicular, whose squared distance is
\* cross^2 / |b - a|^2.  The zero-denominator return is never taken: a # b there.
point_to_line_distance(point, line_start, line_end) ==
    LET x0 == point[1]
        y0 == point[2]
        x1 == line_start[1]
        y1 == line_start[2]
        x2 == line_end[1]
        y2 == line_end[2]
        numerator == (x0 - x1) * (x2 - x1) + (y0 - y1) * (y2 - y1)
        len2 == (y2 - y1) * (y2 - y1) + (x2 - x1) * (x2 - x1)
        cross == (x0 - x1) * (y2 - y1) - (y0 - y1) * (x2 - x1)
    IN  IF line_start = line_end THEN [num |-> DistSq(point, line_start), den |-> 1]
        ELSE IF numerator <= 0 THEN [num |-> DistSq(point, line_start), den |-> 1]
        ELSE IF numerator >= len2 THEN [num |-> DistSq(point, line_end), den |-> 1]
        ELSE [num |-> cross * cross, den |-> len2]

point_on_line_segment(point, line_start, line_end) ==
    LET d == point_to_line_distance(point, line_start, line_end)
        x == point[1]
        y == point[2]
        x1 == line_start[1]
        y1 == line_start[2]
        x2 == line_end[1]
        y2 == line_end[2]
    IN  IF 4 * d.num > grid_size * grid_size * d.den   \* d > grid_size / 2
        THEN FALSE
        ELSE /\ Min(x1, x2) <= x /\ x <= Max(x1, x2)
             /\ Min(y1, y2) <= y /\ y <= Max(y1, y2)

\* zip(wire.points, wire.points[1:])
Segments(wire) ==
    [i \in 1..(Len(wire.points) - 1) |-> <<wire.points[i], wire.points[i + 1]>>]

\* the segments of the wire, in point order, that the point lies on
MatchingSegments(point, wire) ==
    SelectSeq(Segments(wire), LAMBDA s : point_on_line_segment(point, s[1], s[2]))

OnWire(point, wire) == MatchingSegments(point, wire) # <<>>

\* floor(sqrt(n)) by Newton's iteration from a start x above the root
RECURSIVE IntSqrt(_, _)
IntSqrt(n, x) ==
    LET y == (x + n \div x) \div 2
    IN  IF y >= x THEN x ELSE IntSqrt(n, y)

\* math.sqrt(n) in 1/100 of a unit; 8192 is above the root for n < 6710, the
\* squared length of any segment between points less than 80 pixels apart
Sqrt(n) == IF n = 0 THEN 0 ELSE IntSqrt(n * 10000, 8192)

SegmentLength(s) == Sqrt(DistSq(s[1], s[2]))

\* the loop of get_position_along_wire over segments 1..k; target_segment is
\* the index of the segment, 0 for None
RECURSIVE PositionScan(_, _, _)
PositionScan(point, segs, k) ==
    IF k = 0
    THEN [total_length |-> 0, current_length |-> 0,
          target_segment |-> 0, segment_start |-> 0]
    ELSE LET prev == PositionScan(point, segs, k - 1)
             segment_length == SegmentLength(segs[k])
             hit == point_on_line_segment(point, segs[k][1], segs[k][2])
         IN  [total_length |-> prev.total_length + segment_length,
              current_length |-> prev.current_length + segment_length,
              target_segment |-> IF hit THEN k ELSE prev.target_segment,
              segment_start |-> IF hit THEN prev.current_length
                                ELSE prev.segment_start]

\* the fraction num / den of the arc length
get_position_along_wire(point, wire) ==
    LET segs == Segments(wire)
        scan == PositionScan(point, segs, Len(segs))
    IN  IF scan.target_segment # 0
        THEN LET p1 == segs[scan.target_segment][1]
                 point_distance == Sqrt(DistSq(point, p1))
             IN  [num |-> scan.segment_start + point_distance,
                  den |-> scan.total_length]
        ELSE [num |-> 0, den |-> 1]

KeyLess(a, b) == a.num * b.den < b.num * a.den

KeyEq(a, b) == a.num * b.den = b.num * a.den

----------------------------------------------------------------------------
(* Wire connectivity resolver *)

Endpoints(wire) == {wire.points[1], Last(wire.points)}

\* connections[i], for the 0-based wire index i
Neighbours(ws, i) ==
    {j \in 0..(Len(ws) - 1) :
        /\ i # j
        /\ \E p1 \in Endpoints(ws[i + 1]) : \E p2 \in Endpoints(ws[j + 1]) :
              point_near_pos(p1, p2, ENDPOINT_THRESHOLD)}

\* the dict as the list of its values: connections[i] is at position i + 1
find_wire_connections(ws) == [i \in 1..Len(ws) |-> Neighbours(ws, i - 1)]

\* "for neighbor in connections[current]": the stack after the loop body ran for
\* the neighbours order[1..k]
RECURSIVE VisitNeighbours(_, _, _)
VisitNeighbours(st, order, k) ==
    IF k = 0 THEN st
    ELSE LET prev == VisitNeighbours(st, order, k - 1)
             neighbor == order[k]
         IN  IF neighbor \notin prev.connected
             THEN [connected |-> prev.connected \cup {neighbor},
                   stack |-> Append(prev.stack, neighbor)]
             ELSE prev

\* "while stack": pop the last element and visit its neighbours
RECURSIVE Traverse(_, _)
Traverse(st, connections) ==
    IF st.stack = <<>> THEN st.connected
    ELSE LET current == Last(st.stack)
             popped == [connected |-> st.connected,
                        stack |-> SubSeq(st.stack, 1, Len(st.stack) - 1)]
             neighbours == connections[current + 1]
         IN  Traverse(VisitNeighbours(popped, IterationOrder(neighbours),
                                      Cardinality(neighbours)),
                      connections)

\* only the direct neighbours of the start wire
get_connected_wires_direct(start_wire, connections) ==
    {start_wire} \cup connections[start_wire + 1]

get_connected_wires(start_wire, connections) ==
    Traverse([connected |-> {start_wire}, stack |-> <<start_wire>>], connections)

----------------------------------------------------------------------------
(* Circuit compiler *)

\* a CircuitInstruction of the QuantumCircuit
Op(name, qubits, clbits) == [name |-> name, qubits |-> qubits, clbits |-> clbits]

\* QuantumCircuit(qr, cr) of initialize_circuit
initialize_circuit(ws) ==
    [num_qubits |-> Max(Len(ws), 1), num_clbits |-> Max(Len(ws), 1), data |-> <<>>]

AppendOp(circ, op) == [circ EXCEPT !.data = Append(@, op)]

\* the target of a CNOT wrapping around to wire 0 on the last wire
add_gate_to_circuit_wraparound(circ, num_wires, gate_type, wire_idx) ==
    IF circ = NoCircuit \/ Len(circ.data) = 0 THEN circ
    ELSE IF gate_type = "CNOT" /\ num_wires > 1
    THEN AppendOp(circ, Op("cx", <<wire_idx, (wire_idx + 1) % num_wires>>, <<>>))
    ELSE IF gate_type \in {"H", "X", "Y", "Z"}
    THEN AppendOp(circ, Op(IF gate_type = "H" THEN "h" ELSE IF gate_type = "X" THEN "x"
                           ELSE IF gate_type = "Y" THEN "y" ELSE "z",
                           <<wire_idx>>, <<>>))
    ELSE circ

\* "not self.circuit" is true for None and for a circuit of no instructions
\* (QuantumCircuit.__len__)
add_gate_to_circuit(circ, num_wires, gate_type, wire_idx) ==
    IF circ = NoCircuit THEN circ
    ELSE IF Len(circ.data) = 0 THEN circ
    ELSE IF gate_type = "H" THEN AppendOp(circ, Op("h", <<wire_idx>>, <<>>))
    ELSE IF gate_type = "X" THEN AppendOp(circ, Op("x", <<wire_idx>>, <<>>))
    ELSE IF gate_type = "Y" THEN AppendOp(circ, Op("y", <<wire_idx>>, <<>>))
    ELSE IF gate_type = "Z" THEN AppendOp(circ, Op("z", <<wire_idx>>, <<>>))
    ELSE IF gate_type = "CNOT" /\ wire_idx < num_wires - 1
    THEN AppendOp(circ, Op("cx", <<wire_idx, wire_idx + 1>>, <<>>))
    ELSE circ

\* the wire_gates list of one wire after the scan of gates gs[1..k]: a pair
\* (gate, position) is appended for every segment the gate lies on
RECURSIVE collect_wire_gates(_, _, _)
collect_wire_gates(gs, wire, k) ==
    IF k = 0 THEN <<>>
    ELSE LET hits == Len(MatchingSegments(gs[k].pos, wire))
             entry == [gate |-> k, key |-> get_position_along_wire(gs[k].pos, wire)]
         IN  collect_wire_gates(gs, wire, k - 1) \o [j \in 1..hits |-> entry]

\* the sort left out: the gates stay in the order of the gates collection
unsorted_wire_gates(wire_gates) == wire_gates

\* list.sort(key=...) is stable: an element goes after the elements whose key
\* is not larger
RECURSIVE InsertByKey(_, _)
InsertByKey(s, e) ==
    IF s = <<>> THEN <<e>>
    ELSE IF KeyLess(e.key, Head(s).key) THEN <<e>> \o s
    ELSE <<Head(s)>> \o InsertByKey(Tail(s), e)

RECURSIVE sort_wire_gates(_)
sort_wire_gates(wire_gates) ==
    IF wire_gates = <<>> THEN <<>>
    ELSE InsertByKey(sort_wire_gates(SubSeq(wire_gates, 1, Len(wire_gates) - 1)),
                     Last(wire_gates))

\* "for gate, _ in wire_gates: add_gate_to_circuit(...)" for wire_gates[1..k]
RECURSIVE emit_wire_gates(_, _, _, _, _, _)
emit_wire_gates(circ, num_wires, gs, wire_gates, wire_idx, k) ==
    IF k = 0 THEN circ
    ELSE add_gate_to_circuit(
             emit_wire_gates(circ, num_wires, gs, wire_gates, wire_idx, k - 1),
             num_wires, gs[wire_gates[k].gate].type, wire_idx)

\* the body of "for connected_wire_idx in connected_group"
compile_wire(circ, ws, gs, connected_wire_idx) ==
    LET wire == ws[connected_wire_idx + 1]
        wire_gates == sort_wire_gates(collect_wire_gates(gs, wire, Len(gs)))
    IN  emit_wire_gates(AppendOp(circ, Op("reset", <<connected_wire_idx>>, <<>>)),
                        Len(ws), gs, wire_gates, connected_wire_idx, Len(wire_gates))

RECURSIVE compile_group(_, _, _, _, _)
compile_group(circ, ws, gs, order, k) ==
    IF k = 0 THEN circ
    ELSE compile_wire(compile_group(circ, ws, gs, order, k - 1), ws, gs, order[k])

\* "for wire_idx, wire in enumerate(self.wires)" from wire_idx on
RECURSIVE compile_wires(_, _, _, _, _, _)
compile_wires(circ, processed_wires, ws, gs, connections, wire_idx) ==
    IF wire_idx >= Len(ws) THEN circ
    ELSE IF wire_idx \in processed_wires
    THEN compile_wires(circ, processed_wires, ws, gs, connections, wire_idx + 1)
    ELSE LET connected_group == get_connected_wires(wire_idx, connections)
             order == IterationOrder(connected_group)
         IN  compile_wires(compile_group(circ, ws, gs, order, Len(order)),
                           processed_wires \cup connected_group,
                           ws, gs, connections, wire_idx + 1)

\* the wire indices measured for one sensor, in emission order: the break
\* leaves the loop over the segments of one wire, not the loop over the wires
sensor_measurements(ws, sensor_pos) ==
    SelectSeq([i \in 1..Len(ws) |-> i - 1], LAMBDA idx : OnWire(sensor_pos, ws[idx + 1]))

RECURSIVE all_sensor_measurements(_, _, _)
all_sensor_measurements(ws, ss, k) ==
    IF k = 0 THEN <<>>
    ELSE all_sensor_measurements(ws, ss, k - 1) \o sensor_measurements(ws, ss[k])

\* QuantumCircuit.measure_all(): a new classical register "meas" behind the
\* existing clbits, a barrier, and one measure per qubit into it
measure_all(circ) ==
    LET n == circ.num_qubits
        base == circ.num_clbits
    IN  [num_qubits |-> n,
         num_clbits |-> base + n,
         data |-> circ.data
                  \o <<Op("barrier", [q \in 1..n |-> q - 1], <<>>)>>
                  \o [q \in 1..n |-> Op("measure", <<q - 1>>, <<base + q - 1>>)]]

\* the fallback taken only when the diagram has no sensor at all
attach_measurements_no_sensor(circ, ws, ss) ==
    LET measured == all_sensor_measurements(ws, ss, Len(ss))
        with_sensors ==
            [circ EXCEPT !.data =
                @ \o [i \in 1..Len(measured) |->
                        Op("measure", <<measured[i]>>, <<measured[i]>>)]]
    IN  IF ss = <<>> THEN measure_all(with_sensors) ELSE with_sensors

attach_measurements(circ, ws, ss) ==
    LET measured == all_sensor_measurements(ws, ss, Len(ss))
        measurements_added == measured # <<>>
        with_sensors ==
            [circ EXCEPT !.data =
                @ \o [i \in 1..Len(measured) |->
                        Op("measure", <<measured[i]>>, <<measured[i]>>)]]
    IN  IF ~measurements_added THEN measure_all(with_sensors) ELSE with_sensors

\* lines 281-323 of simulate_circuit: the circuit handed to the simulator
compile_circuit(ws, gs, ss) ==
    attach_measurements(
        compile_wires(initialize_circuit(ws), {}, ws, gs, find_wire_connections(ws), 0),
        ws, ss)

----------------------------------------------------------------------------
(* Execution adapter: what self.simulator.run(...).result().get_counts() can
   give for a circuit.  A key holds one character per clbit, the last register
   first and clbit 0 last, the registers separated by a space. *)

BitChar(ones, b) == IF b \in ones THEN "1" ELSE "0"

\* the key in which exactly the clbits of `ones` read 1
BitString(circ, ones) ==
    LET n == circ.num_qubits
        creg == [i \in 1..n |-> BitChar(ones, n - i)]
        meas == [i \in 1..n |-> BitChar(ones, 2 * n - i)]
    IN  IF circ.num_clbits > n THEN meas \o <<" ">> \o creg ELSE creg

MeasuredClbits(circ) ==
    {circ.data[i].clbits[1] : i \in {j \in 1..Len(circ.data) : circ.data[j].name = "measure"}}

\* the engine either raises or returns counts that sum to the shots: half of
\* the shots read 0 everywhere and half read 1 on every measured clbit
EngineOutcomes == {"raise", "counts"}

get_counts(circ) ==
    <<[key |-> BitString(circ, {}), count |-> SHOTS \div 2],
      [key |-> BitString(circ, MeasuredClbits(circ)), count |-> SHOTS - SHOTS \div 2]>>

----------------------------------------------------------------------------
(* Result aggregator.  counts is the list of the dict's items; processed_data
   is the list of its values, "Sensor i" at position i + 1, a probability
   count / total_shots kept as its numerator beside total_shots. *)

RECURSIVE SumCounts(_)
SumCounts(cs) == IF cs = <<>> THEN 0 ELSE cs[1].count + SumCounts(Tail(cs))

\* the key taken as it is, the space between its registers kept
StripSpaces_kept(bitstring) == bitstring

\* "".join(bitstring.split())
StripSpaces(bitstring) == SelectSeq(bitstring, LAMBDA ch : ch # " ")

\* the loop over enumerate(bits) for one item of counts
accumulate_bits(data, bits, count, total_shots) ==
    [i \in 1..Max(Len(data), Len(bits)) |->
        LET old == IF i <= Len(data) THEN data[i]
                   ELSE [zero |-> 0, one |-> 0, total |-> total_shots]
        IN  IF i > Len(bits) THEN old
            ELSE IF bits[i] = "0" THEN [old EXCEPT !.zero = @ + count]
            ELSE IF bits[i] = "1" THEN [old EXCEPT !.one = @ + count]
            ELSE old]

RECURSIVE process_items(_, _, _)
process_items(cs, k, total_shots) ==
    IF k = 0 THEN <<>>
    ELSE accumulate_bits(process_items(cs, k - 1, total_shots),
                         StripSpaces(cs[k].key), cs[k].count, total_shots)

process_measurement_results(cs) ==
    LET total_shots == SumCounts(cs)
    IN  IF cs = <<>> \/ total_shots = 0 THEN <<>>
        ELSE process_items(cs, Len(cs), total_shots)

\* the "Analysis:" line of one sensor: prob_0 = zero / total
interpretation(m) ==
    IF 10 * m.zero > 9 * m.total THEN "Definite 0 state"
    ELSE IF 10 * m.zero < m.total THEN "Definite 1 state"
    ELSE IF 4 * m.total <= 10 * m.zero /\ 10 * m.zero <= 6 * m.total
    THEN "Superposition state"
    ELSE "Mixed state"

\* the text set on the "Sensor Data" widget
update_sensor_table(data) ==
    IF data = <<>> THEN [kind |-> "No measurements available", rows |-> <<>>]
    ELSE [kind |-> "Measurement Results:",
          rows |-> [i \in 1..Len(data) |->
                      [zero |-> data[i].zero, one |-> data[i].one,
                       total |-> data[i].total, analysis |-> interpretation(data[i])]]]

----------------------------------------------------------------------------
(* The designer: state after __init__ and the handlers *)

Wire(points) == [points |-> points]

Gate(type, pos) == [type |-> type, pos |-> pos]

Init ==
    /\ wires = <<>>
    /\ gates = <<>>
    /\ sensors = <<>>
    /\ circuit = NoCircuit
    /\ drawing_wire = FALSE
    /\ current_wire_points = <<>>
    /\ selected_tool = None
    /\ sensor_data = <<>>
    /\ circuit_info = "No circuit simulated yet"
    /\ sensor_text = [kind |-> "No measurements yet", rows |-> <<>>]
    /\ wire_connections = <<>>
    /\ counts = <<>>

select_tool(tool) ==
    /\ selected_tool' = tool
    /\ drawing_wire' = FALSE
    /\ current_wire_points' = <<>>
    /\ UNCHANGED <<wires, gates, sensors, circuit, sensor_data, circuit_info,
                   sensor_text, wire_connections, counts>>

handle_mouse_down(pos) ==
    LET grid_pos == snap_to_grid(pos)
    IN  /\ selected_tool = "WIRE" => Len(wires) < MaxWires
        /\ selected_tool \in GATE_COLORS => Len(gates) < MaxGates
        /\ IF selected_tool = "DELETE"
           THEN /\ gates' = SelectSeq(gates,
                        LAMBDA g : ~point_near_pos(g.pos, grid_pos, DEFAULT_THRESHOLD))
                /\ sensors' = SelectSeq(sensors,
                        LAMBDA sp : ~point_near_pos(sp, grid_pos, DEFAULT_THRESHOLD))
                /\ wires' = SelectSeq(wires, LAMBDA w : ~OnWire(grid_pos, w))
                /\ UNCHANGED <<drawing_wire, current_wire_points>>
           ELSE IF selected_tool = "WIRE"
           THEN /\ drawing_wire' = TRUE
                /\ current_wire_points' = <<grid_pos>>
                /\ UNCHANGED <<wires, gates, sensors>>
           ELSE IF selected_tool \in GATE_COLORS
           THEN /\ gates' = Append(gates, Gate(selected_tool, grid_pos))
                /\ UNCHANGED <<wires, sensors, drawing_wire, current_wire_points>>
           ELSE IF selected_tool = "SENSOR"
           THEN /\ sensors' = Append(sensors, grid_pos)
                /\ UNCHANGED <<wires, gates, drawing_wire, current_wire_points>>
           ELSE UNCHANGED <<wires, gates, sensors, drawing_wire, current_wire_points>>
        /\ UNCHANGED <<circuit, selected_tool, sensor_data, circuit_info,
                       sensor_text, wire_connections, counts>>

\* the wire kept when it has at least one point
handle_mouse_up_single_point ==
    /\ IF drawing_wire
       THEN /\ drawing_wire' = FALSE
            /\ IF Len(current_wire_points) > 0
               THEN wires' = Append(wires, Wire(current_wire_points))
               ELSE UNCHANGED wires
            /\ current_wire_points' = <<>>
       ELSE UNCHANGED <<wires, drawing_wire, current_wire_points>>
    /\ UNCHANGED <<gates, sensors, circuit, selected_tool, sensor_data,
                   circuit_info, sensor_text, wire_connections, counts>>

handle_mouse_up ==
    /\ IF drawing_wire
       THEN /\ drawing_wire' = FALSE
            /\ IF Len(current_wire_points) > 1
               THEN wires' = Append(wires, Wire(current_wire_points))
               ELSE UNCHANGED wires
            /\ current_wire_points' = <<>>
       ELSE UNCHANGED <<wires, drawing_wire, current_wire_points>>
    /\ UNCHANGED <<gates, sensors, circuit, selected_tool, sensor_data,
                   circuit_info, sensor_text, wire_connections, counts>>

handle_mouse_motion(pos) ==
    LET grid_pos == snap_to_grid(pos)
    IN  /\ IF drawing_wire /\ grid_pos # Last(current_wire_points)
           THEN /\ Len(current_wire_points) < MaxPoints
                /\ current_wire_points' = Append(current_wire_points, grid_pos)
           ELSE UNCHANGED current_wire_points
        /\ UNCHANGED <<wires, gates, sensors, circuit, drawing_wire, selected_tool,
                       sensor_data, circuit_info, sensor_text, wire_connections,
                       counts>>

clear_board ==
    /\ wires' = <<>>
    /\ gates' = <<>>
    /\ sensors' = <<>>
    /\ circuit' = NoCircuit
    /\ sensor_data' = <<>>
    /\ sensor_text' = update_sensor_table(<<>>)
    /\ UNCHANGED <<drawing_wire, current_wire_points, selected_tool, circuit_info,
                   wire_connections, counts>>

\* the except clause resetting the statistics
simulation_error_clearing(data) == <<>>

\* the except clause of simulate_circuit: the message replaces the circuit
\* text, nothing else is assigned
simulation_error(data) == data

\* one call of simulate_circuit; outcome is what the engine does with the
\* circuit.  The widget shows the rendering of the circuit ("circuit") or
\* the error message; the rendered characters are not modelled.
simulate_circuit(outcome) ==
    IF wires = <<>>
    THEN UNCHANGED vars
    ELSE LET compiled == compile_circuit(wires, gates, sensors)
         IN  /\ circuit' = compiled
             /\ IF outcome = "raise"
                THEN /\ circuit_info' = "Simulation error"
                     /\ sensor_data' = simulation_error(sensor_data)
                     /\ UNCHANGED sensor_text
                ELSE LET result == get_counts(compiled)
                         processed == process_measurement_results(result)
                     IN  /\ circuit_info' = "circuit"
                         /\ sensor_data' = processed
                         /\ sensor_text' = update_sensor_table(processed)
             /\ UNCHANGED <<wires, gates, sensors, drawing_wire, current_wire_points,
                            selected_tool, wire_connections, counts>>

Next ==
    \/ \E tool \in Tools : select_tool(tool)
    \/ \E pos \in MousePositions : handle_mouse_down(pos)
    \/ \E pos \in MousePositions : handle_mouse_motion(pos)
    \/ handle_mouse_up
    \/ clear_board

Spec == Init /\ [][Next]_vars

----------------------------------------------------------------------------
(* simulate_circuit on a given diagram: the diagram is any one the editor
   stores (wires of at least two grid points, consecutive points distinct,
   gates of the GATE_COLORS types) with any list of sensor positions, of at
   most InitItems wires, gates and sensors together. *)

WireShapes(max_points) ==
    {Wire(ps) : ps \in {t \in SeqsUpTo(GridPoints, 2, max_points) :
                           \A i \in 1..(Len(t) - 1) : t[i] # t[i + 1]}}

GateChoices == {Gate(t, p) : t \in GATE_COLORS, p \in GridPoints}

InitSim ==
    /\ wires \in SeqsUpTo(WireShapes(InitPoints), 0, InitWires)
    /\ gates \in SeqsUpTo(GateChoices, 0, Min(InitGates, InitItems - Len(wires)))
    /\ sensors \in SeqsUpTo(GridPoints, 0,
                            Min(InitSensors, InitItems - Len(wires) - Len(gates)))
    /\ circuit = NoCircuit
    /\ drawing_wire = FALSE
    /\ current_wire_points = <<>>
    /\ selected_tool = None
    /\ sensor_data = <<>>
    /\ circuit_info = "No circuit simulated yet"
    /\ sensor_text = [kind |-> "No measurements yet", rows |-> <<>>]
    /\ wire_connections = <<>>
    /\ counts = <<>>

NextSim == \E outcome \in EngineOutcomes : simulate_circuit(outcome)

SpecSim == InitSim /\ [][NextSim]_vars

----------------------------------------------------------------------------
(* The resolver and the aggregator applied on their own: to any collection of
   wires the editor stores, and to any counts an engine returns (every key
   holds one character per clbit of the same registers, the keys distinct). *)

BitSeqs(n) == [1..n -> {"0", "1"}]

\* the keys of a circuit of n clbits, and of one to which measure_all added a
\* register of n more
KeyLayouts ==
    {BitSeqs(n) : n \in 1..MaxBits}
    \cup {{m \o <<" ">> \o c : m \in BitSeqs(n), c \in BitSeqs(n)} :
             n \in {k \in 1..MaxBits : 2 * k <= MaxBits}}

CountsOver(keys) ==
    {cs \in SeqsUpTo([key : keys, count : 0..MaxCount], 0, MaxKeys) :
        \A i, j \in 1..Len(cs) : i # j => cs[i].key # cs[j].key}

\* open two-point wires and closed three-point wires over the grid positions
\* and one more
ResolverShapes ==
    LET grid == GridPoints \cup {<<40, 0>>}
    IN  {Wire(<<pq[1], pq[2]>>) : pq \in {x \in grid \X grid : x[1] # x[2]}}
        \cup {Wire(<<pq[1], pq[2], pq[1]>>) : pq \in {x \in grid \X grid : x[1] # x[2]}}

InitFn ==
    /\ \/ /\ wires \in SeqsUpTo(ResolverShapes, 0, ConnWires)
          /\ counts = <<>>
       \/ /\ wires = <<>>
          /\ \E keys \in KeyLayouts : counts \in CountsOver(keys)
    /\ gates = <<>>
    /\ sensors = <<>>
    /\ circuit = NoCircuit
    /\ drawing_wire = FALSE
    /\ current_wire_points = <<>>
    /\ selected_tool = None
    /\ sensor_data = <<>>
    /\ circuit_info = "No circuit simulated yet"
    /\ sensor_text = [kind |-> "No measurements yet", rows |-> <<>>]
    /\ wire_connections = <<>>

\* wire_connections = self.find_wire_connections()
resolve_connections ==
    /\ wire_connections' = find_wire_connections(wires)
    /\ UNCHANGED <<wires, gates, sensors, circuit, drawing_wire, current_wire_points,
                   selected_tool, sensor_data, circuit_info, sensor_text, counts>>

\* self.sensor_data = self.process_measurement_results(counts), then
\* self.update_sensor_table()
aggregate_counts ==
    /\ sensor_data' = process_measurement_results(counts)
    /\ sensor_text' = update_sensor_table(process_measurement_results(counts))
    /\ UNCHANGED <<wires, gates, sensors, circuit, drawing_wire, current_wire_points,
                   selected_tool, circuit_info, wire_connections, counts>>

NextFn == resolve_connections \/ aggregate_counts

SpecFn == InitFn /\ [][NextFn]_vars

----------------------------------------------------------------------------
(* Properties *)

WireIdx == 0..(Len(wires) - 1)

\* simulate_circuit has compiled the diagram (under SpecSim the diagram does
\* not change, so the circuit is the one of the current diagram)
Simulated == circuit # NoCircuit

IndicesOf(data, op) == {i \in 1..Len(data) : data[i] = op}

\* the operation a gate of the given type stands for on wire w, if any
OpsFor(gate_type, w) ==
    IF gate_type = "H" THEN <<Op("h", <<w>>, <<>>)>>
    ELSE IF gate_type = "X" THEN <<Op("x", <<w>>, <<>>)>>
    ELSE IF gate_type = "Y" THEN <<Op("y", <<w>>, <<>>)>>
    ELSE IF gate_type = "Z" THEN <<Op("z", <<w>>, <<>>)>>
    ELSE IF gate_type = "CNOT" /\ w # Len(wires) - 1
    THEN <<Op("cx", <<w, w + 1>>, <<>>)>>
    ELSE <<>>

IsBoundary(op) == op.name \in {"reset", "barrier", "measure"}

\* the operations between reset(w) and the next reset, barrier or measure
WireBlock(data, w) ==
    LET start == CHOOSE i \in 1..Len(data) : data[i] = Op("reset", <<w>>, <<>>)
        stop == CHOOSE j \in (start + 1)..Len(data) :
                    /\ IsBoundary(data[j])
                    /\ \A k \in (start + 1)..(j - 1) : ~IsBoundary(data[k])
    IN  SubSeq(data, start + 1, stop - 1)

\* the gates lying on wire w, one entry per gate and matching segment, in the
\* order of the gates collection, each with its position-along-wire value
EntriesOn(w) == collect_wire_gates(gates, wires[w + 1], Len(gates))

\* the place of entry i when the entries are arranged by ascending position
\* value and, at equal value, by their order in the gates collection
Rank(E, i) ==
    1 + Cardinality({j \in 1..Len(E) :
            \/ KeyLess(E[j].key, E[i].key)
            \/ KeyEq(E[j].key, E[i].key) /\ j < i})

RECURSIVE Flatten(_)
Flatten(ss) == IF ss = <<>> THEN <<>> ELSE Head(ss) \o Flatten(Tail(ss))

ArrangedOps(w) ==
    LET E == EntriesOn(w)
    IN  Flatten([r \in 1..Len(E) |->
            OpsFor(gates[E[CHOOSE i \in 1..Len(E) : Rank(E, i) = r].gate].type, w)])

\* C1: for two wires whose endpoints coincide and a CNOT gate on wire 0, the
\* circuit holds reset(0), reset(1) and cx(0,1), and every reset comes before
\* the cx(0,1).
C1_ResetsBeforeCnot ==
    (/\ Simulated
     /\ Len(wires) = 2
     /\ \E p1 \in Endpoints(wires[1]) : \E p2 \in Endpoints(wires[2]) :
            point_near_pos(p1, p2, ENDPOINT_THRESHOLD)
     /\ \E g \in 1..Len(gates) :
            gates[g].type = "CNOT" /\ OnWire(gates[g].pos, wires[1]))
    => LET data == circuit.data
           cx == IndicesOf(data, Op("cx", <<0, 1>>, <<>>))
       IN  /\ cx # {}
           /\ \A q \in {0, 1} :
                 /\ IndicesOf(data, Op("reset", <<q>>, <<>>)) # {}
                 /\ \A i \in IndicesOf(data, Op("reset", <<q>>, <<>>)) :
                       \A j \in cx : i < j

\* C2: on every wire the gate operations are emitted in ascending order of
\* the gates' position-along-wire value whatever the order of the gates
\* collection, and gates of equal value in the order of the gates collection.
C2_GatesInPositionOrder ==
    Simulated => \A w \in WireIdx : WireBlock(circuit.data, w) = ArrangedOps(w)

\* a wire carries two gates of different single-qubit types, the one placed
\* later lying earlier along the wire, and simulate_circuit has run
C2_Witness ==
    /\ Simulated
    /\ \E w \in WireIdx : \E i, j \in 1..Len(EntriesOn(w)) :
          LET E == EntriesOn(w)
          IN  /\ i < j
              /\ KeyLess(E[j].key, E[i].key)
              /\ gates[E[i].gate].type \in {"H", "X", "Y", "Z"}
              /\ gates[E[j].gate].type \in {"H", "X", "Y", "Z"}
              /\ gates[E[i].gate].type # gates[E[j].gate].type

\* the qubits measured by the circuit
MeasuredQubits(data) ==
    {data[i].qubits[1] : i \in {j \in 1..Len(data) : data[j].name = "measure"}}

\* the wires some sensor lies on
SensedWires ==
    {w \in WireIdx : \E k \in 1..Len(sensors) : OnWire(sensors[k], wires[w + 1])}

\* C3: if no sensor lies on any wire every qubit 0..wireCount-1 is measured;
\* otherwise the measured wires are exactly the wires some sensor lies on.
C3_MeasuredWires ==
    Simulated =>
        IF SensedWires = {}
        THEN MeasuredQubits(circuit.data) = WireIdx
        ELSE MeasuredQubits(circuit.data) = SensedWires

\* a sensor lies on one of two wires and not on the other, and
\* simulate_circuit has run
C3_Witness ==
    /\ Simulated
    /\ Len(wires) = 2
    /\ Cardinality(SensedWires) = 1

\* C4: a simulate_circuit call in which the engine raises ends with the error
\* message in the circuit-info area, and a call that ends with the error
\* message leaves sensor_data as it was before the call.
C4_ErrorKeepsStatistics ==
    [][/\ (wires # <<>> /\ simulate_circuit("raise"))
            => circuit_info' = "Simulation error"
       /\ circuit_info' = "Simulation error" => sensor_data' = sensor_data]_vars

\* the engine raised after an earlier call had stored statistics
C4_Witness ==
    /\ circuit_info = "Simulation error"
    /\ sensor_data # <<>>

\* C5: every wire of the wire collection has at least 2 points, and outside
\* a drawing no points are pending.
C5_WiresHaveTwoPoints ==
    /\ \A i \in 1..Len(wires) : Len(wires[i].points) >= 2
    /\ ~drawing_wire => current_wire_points = <<>>

\* a wire has been stored and a new drawing holds a single point
C5_Witness ==
    /\ Len(wires) >= 1
    /\ drawing_wire
    /\ Len(current_wire_points) = 1

\* the resolver has been applied to the current wires
Resolved == wires # <<>> /\ Len(wire_connections) = Len(wires)

GroupOf(a) == get_connected_wires(a, wire_connections)

\* the wires reachable from a by a chain of at most n adjacencies
RECURSIVE ReachableWithin(_, _)
ReachableWithin(a, n) ==
    IF n = 0 THEN {a}
    ELSE LET near == ReachableWithin(a, n - 1)
         IN  near \cup UNION {wire_connections[b + 1] : b \in near}

\* C6: the adjacency is symmetric; the group of A contains every wire
\* reachable from A by a chain of adjacencies (so C when A-B and B-C are
\* adjacent); B is in the group of A iff A is in the group of B.
C6_ConnectivitySymmetricTransitive ==
    Resolved =>
        /\ \A i, j \in WireIdx :
              j \in wire_connections[i + 1] <=> i \in wire_connections[j + 1]
        /\ \A a \in WireIdx : ReachableWithin(a, Len(wires)) \subseteq GroupOf(a)
        /\ \A a, b, c \in WireIdx :
              (b \in wire_connections[a + 1] /\ c \in wire_connections[b + 1])
                  => c \in GroupOf(a)
        /\ \A a, b \in WireIdx : b \in GroupOf(a) <=> a \in GroupOf(b)

\* three wires form a chain: the first and the third are joined only through
\* the second
C6_Witness ==
    /\ Resolved
    /\ \E a, b, c \in WireIdx :
          /\ b \in wire_connections[a + 1]
          /\ c \in wire_connections[b + 1]
          /\ c # a
          /\ c \notin wire_connections[a + 1]

\* the data without its cx operations
WithoutCx(data) == SelectSeq(data, LAMBDA op : op.name # "cx")

\* the CNOT gates of the gates collection lying on wire w
CnotsOn(w) ==
    {g \in 1..Len(gates) : gates[g].type = "CNOT" /\ OnWire(gates[g].pos, wires[w + 1])}

\* C7: a CNOT gate on wire i gives cx(i, i+1) among the operations of wire i
\* when i is not the last index and no operation when it is the last; no
\* other cx is emitted, and the other operations are those of the diagram
\* without its CNOT gates.
C7_CnotSkippedOnLastWire ==
    Simulated =>
        LET data == circuit.data
            last == Len(wires) - 1
        IN  /\ \A w \in WireIdx :
                  LET cxs == {i \in 1..Len(WireBlock(data, w)) :
                                 WireBlock(data, w)[i].name = "cx"}
                  IN  /\ (w # last /\ CnotsOn(w) # {}) => cxs # {}
                      /\ (w = last \/ CnotsOn(w) = {}) => cxs = {}
                      /\ \A i \in cxs : WireBlock(data, w)[i].qubits = <<w, w + 1>>
            /\ WithoutCx(data)
                   = compile_circuit(wires,
                                     SelectSeq(gates, LAMBDA g : g.type # "CNOT"),
                                     sensors).data

\* a CNOT and a single-qubit gate lie on the last wire, and simulate_circuit
\* has run
C7_Witness ==
    /\ Simulated
    /\ CnotsOn(Len(wires) - 1) # {}
    /\ \E g \in 1..Len(gates) :
          /\ gates[g].type \in {"H", "X", "Y", "Z"}
          /\ OnWire(gates[g].pos, wires[Len(wires)])

\* the aggregator has been applied to the current counts
Aggregated == sensor_text.kind # "No measurements yet"

\* C8: for non-empty counts of nonzero total, every sensor bucket holds
\* counts for '0' and '1' that sum to the total shot count, one bucket per
\* clbit; for empty counts or a zero total the result is empty.
C8_ProbabilitiesSumToOne ==
    Aggregated =>
        IF counts = <<>> \/ SumCounts(counts) = 0
        THEN sensor_data = <<>>
        ELSE /\ Len(sensor_data)
                    = Cardinality({i \in 1..Len(counts[1].key) : counts[1].key[i] # " "})
             /\ \A i \in 1..Len(sensor_data) :
                   /\ sensor_data[i].total = SumCounts(counts)
                   /\ sensor_data[i].zero + sensor_data[i].one = sensor_data[i].total

\* counts over keys of two registers, with two keys of nonzero count, have
\* been aggregated
C8_Witness ==
    /\ Aggregated
    /\ Len(counts) = 2
    /\ \A i \in 1..2 : counts[i].count > 0
    /\ Len(counts[1].key) = 3
    /\ sensor_data # <<>>

LowerName(gate_type) ==
    IF gate_type = "H" THEN "h" ELSE IF gate_type = "X" THEN "x"
    ELSE IF gate_type = "Y" THEN "y" ELSE IF gate_type = "Z" THEN "z" ELSE "cx"

\* the number of operations of the given name whose first qubit is w
CountOps(data, name, w) ==
    Cardinality({i \in 1..Len(data) : data[i].name = name /\ data[i].qubits[1] = w})

GatesOn(gate_type, w) ==
    {g \in 1..Len(gates) :
        gates[g].type = gate_type /\ OnWire(gates[g].pos, wires[w + 1])}

\* C9: each gate lying on a wire gives exactly one operation on that wire's
\* index, also when it lies on several segments of the wire (a CNOT on the
\* last wire, which gives none, left aside).
C9_OneOperationPerGate ==
    Simulated =>
        \A w \in WireIdx : \A t \in {"H", "X", "Y", "Z", "CNOT"} :
            (t = "CNOT" => w # Len(wires) - 1)
                => CountOps(circuit.data, LowerName(t), w) = Cardinality(GatesOn(t, w))

\* the measurements of the sensor loop, as the list of their qubits (those of
\* measure_all go to the clbits of the added register)
SensorMeasures(circ) ==
    LET ops == SelectSeq(circ.data,
                   LAMBDA op : op.name = "measure" /\ op.clbits[1] < circ.num_qubits)
    IN  [i \in 1..Len(ops) |-> ops[i].qubits[1]]

\* the first wire, in collection order, a position lies on, if any
FirstWireOf(pos) ==
    LET on == {w \in WireIdx : OnWire(pos, wires[w + 1])}
    IN  IF on = {} THEN <<>> ELSE <<CHOOSE w \in on : \A v \in on : w <= v>>

WiresOf(g) == {w \in WireIdx : OnWire(gates[g].pos, wires[w + 1])}

\* a gate of this type gives an operation when emitted for wire w
Emits(gate_type, w) ==
    \/ gate_type \in {"H", "X", "Y", "Z"}
    \/ gate_type = "CNOT" /\ w # Len(wires) - 1

\* the gate operations of the circuit, each as its name and its first qubit
EmittedOn(data) ==
    {<<data[i].name, data[i].qubits[1]>> :
        i \in {j \in 1..Len(data) : data[j].name \in {"h", "x", "y", "z", "cx"}}}

\* C11: each gate is associated with exactly one of the wires it lies on (none
\* when it lies on no wire), and the circuit holds gate operations on a wire
\* index only for the gates associated with that wire: a gate lying on two
\* wires contributes to one of them, never to both.
C11_OneWirePerGate ==
    Simulated =>
        \E associate \in [1..Len(gates) -> WireIdx \cup {-1}] :
            /\ \A g \in 1..Len(gates) :
                  IF WiresOf(g) = {} THEN associate[g] = -1
                  ELSE associate[g] \in WiresOf(g)
            /\ EmittedOn(circuit.data)
                   = {<<LowerName(gates[g].type), associate[g]>> :
                         g \in {h \in 1..Len(gates) :
                                   /\ associate[h] # -1
                                   /\ Emits(gates[h].type, associate[h])}}

\* C12: a mouse down with the sensor tool selected appends the grid-snapped
\* position to the sensor collection and leaves the gate collection
\* unchanged, and after every editing operation every stored gate has a type
\* in {H, X, Y, Z, CNOT}.
C12_SensorPlacedAsPosition ==
    [][/\ \A pos \in MousePositions :
              (selected_tool = "SENSOR" /\ handle_mouse_down(pos))
                  => /\ sensors' = Append(sensors, snap_to_grid(pos))
                     /\ gates' = gates
       /\ \A g \in 1..Len(gates') : gates'[g].type \in {"H", "X", "Y", "Z", "CNOT"}]_vars

====
